---- MODULE Spec2Model ----
(***************************************************************************)
(* jsleep: a sleep command with jitter (src/jsleep.go).                    *)
(*                                                                         *)
(* The program resolves its arguments to an interval [low, high]           *)
(* (parseArgs, with parseDuration and parsePercent), then draws one point  *)
(* of the interval (chooseSleepDuration, with cryptoRandInt64).            *)
(*                                                                         *)
(* Scaling.  time.Duration is an int64 count of nanoseconds and the        *)
(* percent arithmetic is float64 (53 significant bits, 11 fewer than the   *)
(* word).  The model keeps both shapes at a smaller width: a word has      *)
(* WordBits bits (two's complement, arithmetic wraps) and a float has      *)
(* MantBits = WordBits - 2 significant bits (round to nearest, ties to     *)
(* even), so that, as in the program, the largest word is not a float and  *)
(* float64(MaxInt64) is 2^(WordBits-1).  The units of time are scaled      *)
(* with the word: one second is Second ticks, one day is Day ticks.        *)
(***************************************************************************)
EXTENDS Integers, Sequences, FiniteSets, TLC

\* ------------------------------------------------------------------------
\* Bounds of the model
\* ------------------------------------------------------------------------

\* Width of the machine word standing for int64 / uint64.
WordBits == 5

\* Ticks per second (time.Second) and per day (24*time.Hour) at this width.
Second == 2

Day == 3

\* ------------------------------------------------------------------------
\* Words
\* ------------------------------------------------------------------------

RECURSIVE Pow2(_)
Pow2(k) == IF k = 0 THEN 1 ELSE 2 * Pow2(k - 1)

\* math.MaxInt64, math.MinInt64, ^uint64(0)
MaxInt64 == Pow2(WordBits - 1) - 1

MinInt64 == -Pow2(WordBits - 1)

MaxUint64 == Pow2(WordBits) - 1

Int64 == MinInt64..MaxInt64

\* int64 arithmetic wraps around (Go: no overflow trap).
Wrap(x) == ((x - MinInt64) % Pow2(WordBits)) + MinInt64

\* Go's builtin max and min.
Max2(a, b) == IF a >= b THEN a ELSE b

Min2(a, b) == IF a <= b THEN a ELSE b

Abs(x) == IF x < 0 THEN -x ELSE x

\* ------------------------------------------------------------------------
\* float64, as exact rationals rounded to MantBits significant bits.
\* A float is <<"fin", num, den>> (den > 0), <<"inf", sign>> or <<"nan">>.
\* The exponent is not bounded: an infinity or a NaN comes from the literals
\* Inf and NaN that strconv.ParseFloat accepts, not from a finite overflow.
\* ------------------------------------------------------------------------

MantBits == WordBits - 2

Fin(n, d) == <<"fin", n, d>>

NaN == <<"nan">>

IsFin(x) == x[1] = "fin"

IsInf(x) == x[1] = "inf"

IsNaN(x) == x[1] = "nan"

\* a/d scaled by a power of two into [2^(MantBits-1), 2^MantBits): <<a', d', e>>
\* with a/d = (a'/d') * 2^e.
RECURSIVE Normalize(_, _, _)
Normalize(a, d, e) ==
    IF a >= d * Pow2(MantBits) THEN Normalize(a, 2 * d, e + 1)
    ELSE IF a < d * Pow2(MantBits - 1) THEN Normalize(2 * a, d, e - 1)
    ELSE <<a, d, e>>

\* a/d (a, d >= 0) to the nearest integer, ties to the even one.
RoundHalfEven(a, d) ==
    LET q == a \div d
        r == a % d
    IN  IF 2 * r > d THEN q + 1
        ELSE IF 2 * r = d THEN q + (q % 2)
        ELSE q

\* The float nearest to the rational n/d.
Fl(n, d) ==
    IF n = 0 THEN Fin(0, 1)
    ELSE LET s  == IF n < 0 THEN -1 ELSE 1
             nz == Normalize(Abs(n), d, 0)
             m  == RoundHalfEven(nz[1], nz[2])
             e  == nz[3]
         IN  IF e >= 0 THEN Fin(s * m * Pow2(e), 1) ELSE Fin(s * m, Pow2(-e))

\* float64(i) of an integer.
FloatOfInt(i) == Fl(i, 1)

Sign(x) == IF IsInf(x) THEN x[2] ELSE IF x[2] < 0 THEN -1 ELSE IF x[2] > 0 THEN 1 ELSE 0

FMul(x, y) ==
    IF IsNaN(x) \/ IsNaN(y) THEN NaN
    ELSE IF IsInf(x) \/ IsInf(y)
         THEN IF Sign(x) * Sign(y) = 0 THEN NaN
              ELSE <<"inf", Sign(x) * Sign(y)>>
    ELSE Fl(x[2] * y[2], x[3] * y[3])

FDiv(x, y) ==
    IF IsNaN(x) \/ IsNaN(y) THEN NaN
    ELSE IF IsInf(x) THEN (IF IsInf(y) THEN NaN ELSE <<"inf", x[2] * (IF Sign(y) < 0 THEN -1 ELSE 1)>>)
    ELSE IF IsInf(y) THEN Fin(0, 1)
    ELSE IF y[2] = 0 THEN (IF x[2] = 0 THEN NaN ELSE <<"inf", Sign(x)>>)
    ELSE IF y[2] < 0 THEN Fl(-(x[2] * y[3]), x[3] * (-y[2]))
    ELSE Fl(x[2] * y[3], x[3] * y[2])

\* x + y and x - y of finite floats.
FAdd(x, y) == Fl(x[2] * y[3] + y[2] * x[3], x[3] * y[3])

FSub(x, y) == Fl(x[2] * y[3] - y[2] * x[3], x[3] * y[3])

\* x < y; false when either is NaN.
FLess(x, y) ==
    IF IsNaN(x) \/ IsNaN(y) THEN FALSE
    ELSE IF IsInf(x) THEN x[2] < 0 /\ ~(IsInf(y) /\ y[2] < 0)
    ELSE IF IsInf(y) THEN y[2] > 0
    ELSE x[2] * y[3] < y[2] * x[3]

\* math.Round: to the nearest integer, halves away from zero.
MathRound(x) ==
    IF ~IsFin(x) THEN x
    ELSE LET a == Abs(x[2])
             q == a \div x[3]
             r == a % x[3]
             m == IF 2 * r >= x[3] THEN q + 1 ELSE q
         IN  Fin((IF x[2] < 0 THEN -1 ELSE 1) * m, 1)

\* The build targets whose float-to-integer conversion the model covers.
Archs == {"amd64", "arm64"}

\* int64(x) / time.Duration(x) of a float: truncation toward zero when the
\* value fits; otherwise the result is implementation-dependent: amd64 yields
\* the smallest word, arm64 saturates (and yields 0 for NaN).
IntOfFloat(x, arch) ==
    IF IsNaN(x) THEN (IF arch = "amd64" THEN MinInt64 ELSE 0)
    ELSE IF IsInf(x)
         THEN (IF arch = "amd64" \/ x[2] < 0 THEN MinInt64 ELSE MaxInt64)
    ELSE LET t == (IF x[2] < 0 THEN -1 ELSE 1) * (Abs(x[2]) \div x[3])
         IN  IF t \in Int64 THEN t
             ELSE IF arch = "amd64" \/ t < 0 THEN MinInt64 ELSE MaxInt64

\* ------------------------------------------------------------------------
\* Tokens: an argument is a sequence of characters.
\* ------------------------------------------------------------------------

Digits == <<"0", "1", "2", "3", "4", "5", "6", "7", "8", "9">>

\* unicode.IsDigit
IsDigit(c) == \E i \in 1..Len(Digits) : Digits[i] = c

DigitVal(c) == (CHOOSE i \in 1..Len(Digits) : Digits[i] = c) - 1

Last(s) == s[Len(s)]

Front(s) == SubSeq(s, 1, Len(s) - 1)

\* strings.HasSuffix(s, c) for a one-character suffix.
HasSuffix(s, c) == Len(s) > 0 /\ Last(s) = c

AllDigits(s) == \A i \in 1..Len(s) : IsDigit(s[i])

\* The number a sequence of decimal digits writes.
RECURSIVE DecVal(_)
DecVal(ds) == IF ds = <<>> THEN 0 ELSE 10 * DecVal(Front(ds)) + DigitVal(Last(ds))

\* An optional sign, split off: <<sign, rest>>.
SplitSign(s) ==
    IF Len(s) > 0 /\ s[1] = "-" THEN <<-1, Tail(s)>>
    ELSE IF Len(s) > 0 /\ s[1] = "+" THEN <<1, Tail(s)>>
    ELSE <<1, s>>

\* Length of the longest prefix of digits.
RECURSIVE DigitPrefixLen(_)
DigitPrefixLen(s) ==
    IF s = <<>> \/ ~IsDigit(s[1]) THEN 0 ELSE 1 + DigitPrefixLen(Tail(s))

\* Errors are <<message, token>>; Nil is no error.
Nil == <<"nil", <<>>>>

Err(msg, tok) == <<msg, tok>>

\* strconv.ParseFloat(s, 64) on the literals the model writes: an optional
\* sign and decimal digits (rounded to the nearest float), or Inf, or NaN.
ParseFloat(s) ==
    LET sp   == SplitSign(s)
        body == sp[2]
    IN  IF body = <<"I", "n", "f">> THEN [ok |-> TRUE, val |-> <<"inf", sp[1]>>]
        ELSE IF body = <<"N", "a", "N">> /\ body = s THEN [ok |-> TRUE, val |-> NaN]
        ELSE IF body # <<>> /\ AllDigits(body)
             THEN [ok |-> TRUE, val |-> Fl(sp[1] * DecVal(body), 1)]
        ELSE [ok |-> FALSE, val |-> NaN]

\* The units of time.ParseDuration the model writes, in ticks.
UnitTicks(u) ==
    IF u = <<"n", "s">> THEN 1
    ELSE IF u = <<"s">> THEN Second
    ELSE 0

\* time.ParseDuration(s) on one signed integer and a unit: the magnitude may
\* reach 2^63 only when negative; anything larger is an error.
TimeParseDuration(s) ==
    LET sp   == SplitSign(s)
        body == sp[2]
        k    == DigitPrefixLen(body)
        unit == UnitTicks(SubSeq(body, k + 1, Len(body)))
        mag  == DecVal(SubSeq(body, 1, k)) * unit
    IN  IF body = <<"0">> THEN [err |-> Nil, val |-> 0]
        ELSE IF k = 0 \/ unit = 0
             THEN [err |-> Err("time: invalid duration", s), val |-> 0]
        ELSE IF mag > MaxInt64 + 1 \/ (sp[1] = 1 /\ mag > MaxInt64)
             THEN [err |-> Err("time: invalid duration", s), val |-> 0]
        ELSE [err |-> Nil, val |-> sp[1] * mag]

\* const maxDays = float64(math.MaxInt64) / float64(24*time.Hour)
maxDays == FDiv(FloatOfInt(MaxInt64), Fin(Day, 1))

FNeg(x) == IF IsFin(x) THEN Fin(-x[2], x[3]) ELSE IF IsInf(x) THEN <<"inf", -x[2]>> ELSE x

\* parseDuration(s): days as a float times 24h, a bare number as seconds,
\* the rest by time.ParseDuration.
parseDuration(s, arch) ==
    IF s = <<>> THEN [err |-> Err("empty duration", s), val |-> 0]
    ELSE IF HasSuffix(s, "d")
         THEN LET pf == ParseFloat(Front(s))
              IN  IF ~pf.ok THEN [err |-> Err("invalid duration", s), val |-> 0]
                  ELSE IF FLess(maxDays, pf.val) \/ FLess(pf.val, FNeg(maxDays))
                       THEN [err |-> Err("duration out of range", s), val |-> 0]
                  ELSE [err |-> Nil,
                        val |-> IntOfFloat(FMul(pf.val, Fin(Day, 1)), arch)]
    ELSE IF IsDigit(Last(s)) THEN TimeParseDuration(s \o <<"s">>)
    ELSE TimeParseDuration(s)

\* parsePercent(s): the number before the % sign, divided by 100.
parsePercent(s) ==
    IF ~HasSuffix(s, "%") THEN [err |-> Err("percent must end with %", s), val |-> Fin(0, 1)]
    ELSE LET pf == ParseFloat(Front(s))
         IN  IF ~pf.ok THEN [err |-> Err("invalid percent", s), val |-> Fin(0, 1)]
             ELSE IF FLess(pf.val, Fin(0, 1))
                  THEN [err |-> Err("jitter cannot be negative", <<>>), val |-> Fin(0, 1)]
             ELSE [err |-> Nil, val |-> FDiv(pf.val, Fin(100, 1))]

\* ------------------------------------------------------------------------
\* parseArgs
\* ------------------------------------------------------------------------

\* const defaultJitterFraction = 0.5
defaultJitterFraction == Fin(1, 2)

\* A failed parseArgs: the named results keep their zero values.
Fail(e) == [err |-> e, low |-> 0, high |-> 0]

\* The percent branch of parseArgs (case hasBase): the fraction, then the
\* float arithmetic base -+ round(base * fraction), range-checked against
\* float64(MinInt64) and float64(MaxInt64), converted back to a Duration.
PercentBranch(base, jitterStr, positionalJitter, arch) ==
    LET pp == IF jitterStr # <<>> THEN parsePercent(jitterStr)
              ELSE IF positionalJitter # <<>> THEN parsePercent(positionalJitter)
              ELSE [err |-> Nil, val |-> defaultJitterFraction]
        baseNs == FloatOfInt(base)
        delta  == MathRound(FMul(baseNs, pp.val))
        lowNs  == FSub(baseNs, delta)
        highNs == FAdd(baseNs, delta)
        lo     == FloatOfInt(MinInt64)
        hi     == FloatOfInt(MaxInt64)
    IN  IF pp.err # Nil THEN Fail(pp.err)
        ELSE IF IsNaN(delta) \/ IsInf(delta)
             THEN Fail(Err("jitter results overflow time.Duration", <<>>))
        ELSE IF FLess(lowNs, lo) \/ FLess(hi, lowNs) \/ FLess(highNs, lo) \/ FLess(hi, highNs)
             THEN Fail(Err("jitter results overflow time.Duration", <<>>))
        ELSE [err |-> Nil, low |-> IntOfFloat(lowNs, arch), high |-> IntOfFloat(highNs, arch)]

\* The range branch (case rangeSet): plain Duration arithmetic.
RangeBranch(base, rangeVal) ==
    [err |-> Nil, low |-> Wrap(base - rangeVal), high |-> Wrap(base + rangeVal)]

\* Clamp without the floor at zero.
ClampNoFloor(iv, minSet, minVal, maxSet, maxVal) ==
    LET l1 == IF minSet THEN Max2(iv.low, minVal) ELSE iv.low
        h1 == IF minSet THEN Max2(iv.high, minVal) ELSE iv.high
        l2 == IF maxSet THEN Min2(l1, maxVal) ELSE l1
        h2 == IF maxSet THEN Min2(h1, maxVal) ELSE h1
    IN  IF h2 < l2 THEN Fail(Err("defined interval is empty after clamping", <<>>))
        ELSE [err |-> Nil, low |-> l2, high |-> h2]

\* The last steps of parseArgs: clamp to min, then to max, floor at zero,
\* and reject an interval left empty.
Clamp(iv, minSet, minVal, maxSet, maxVal) ==
    LET l1 == IF minSet THEN Max2(iv.low, minVal) ELSE iv.low
        h1 == IF minSet THEN Max2(iv.high, minVal) ELSE iv.high
        l2 == IF maxSet THEN Min2(l1, maxVal) ELSE l1
        h2 == IF maxSet THEN Min2(h1, maxVal) ELSE h1
        l3 == Max2(l2, 0)
        h3 == Max2(h2, 0)
    IN  IF h3 < l3 THEN Fail(Err("defined interval is empty after clamping", <<>>))
        ELSE [err |-> Nil, low |-> l3, high |-> h3]

\* ConflictError without the check of a positional jitter against --range.
ConflictErrorNoPosRange(pos, jitterStr, rangeStr) ==
    LET positionalJitter == IF Len(pos) = 2 THEN pos[2] ELSE <<>>
        jitterSet == jitterStr # <<>>
        rangeSet  == rangeStr # <<>>
    IN  IF Len(pos) > 2 THEN Err("too many positional arguments", <<>>)
        ELSE IF jitterSet /\ rangeSet THEN Err("cannot use --jitter with --range", <<>>)
        ELSE IF positionalJitter # <<>> /\ jitterSet
             THEN Err("cannot specify jitter both positionally and with --jitter", <<>>)
        ELSE Nil

\* The checks on the flags alone, before any token is parsed.
ConflictError(pos, jitterStr, rangeStr) ==
    LET positionalJitter == IF Len(pos) = 2 THEN pos[2] ELSE <<>>
        jitterSet == jitterStr # <<>>
        rangeSet  == rangeStr # <<>>
    IN  IF Len(pos) > 2 THEN Err("too many positional arguments", <<>>)
        ELSE IF jitterSet /\ rangeSet THEN Err("cannot use --jitter with --range", <<>>)
        ELSE IF positionalJitter # <<>> /\ jitterSet
             THEN Err("cannot specify jitter both positionally and with --jitter", <<>>)
        ELSE IF positionalJitter # <<>> /\ rangeSet
             THEN Err("cannot use positional jitter with --range", <<>>)
        ELSE Nil

\* TokenError with the base parsed before the bounds are compared.
TokenErrorBaseFirst(pr, pm, pM, minSet, maxSet, pb) ==
    IF pr.err # Nil THEN pr.err
    ELSE IF pm.err # Nil THEN pm.err
    ELSE IF pM.err # Nil THEN pM.err
    ELSE IF pb.err # Nil THEN pb.err
    ELSE IF minSet /\ maxSet /\ pM.val < pm.val
         THEN Err("max must be greater than or equal to min", <<>>)
    ELSE Nil

\* The checks on the parsed tokens, in the order parseArgs makes them: the
\* parse errors of range, min and max, then max < min, then the parse error
\* of the base.
TokenError(pr, pm, pM, minSet, maxSet, pb) ==
    IF pr.err # Nil THEN pr.err
    ELSE IF pm.err # Nil THEN pm.err
    ELSE IF pM.err # Nil THEN pM.err
    ELSE IF minSet /\ maxSet /\ pM.val < pm.val
         THEN Err("max must be greater than or equal to min", <<>>)
    ELSE IF pb.err # Nil THEN pb.err
    ELSE Nil

\* parseArgs(args), the flags already split off by the flag package:
\* a = [pos, jitterStr, rangeStr, minStr, maxStr].
parseArgs(a, arch) ==
    LET pos == a.pos
        positionalJitter == IF Len(pos) = 2 THEN pos[2] ELSE <<>>
        rangeSet == a.rangeStr # <<>>
        minSet   == a.minStr # <<>>
        maxSet   == a.maxStr # <<>>
        conflict == ConflictError(pos, a.jitterStr, a.rangeStr)
        pr == IF rangeSet THEN parseDuration(a.rangeStr, arch) ELSE [err |-> Nil, val |-> 0]
        pm == IF minSet THEN parseDuration(a.minStr, arch) ELSE [err |-> Nil, val |-> 0]
        pM == IF maxSet THEN parseDuration(a.maxStr, arch) ELSE [err |-> Nil, val |-> 0]
        hasBase == Len(pos) = 1 \/ Len(pos) = 2
        pb == IF hasBase THEN parseDuration(pos[1], arch) ELSE [err |-> Nil, val |-> 0]
        tokerr == TokenError(pr, pm, pM, minSet, maxSet, pb)
        unclamped ==
            IF rangeSet
            THEN IF ~hasBase THEN Fail(Err("--range requires a base duration", <<>>))
                 ELSE RangeBranch(pb.val, pr.val)
            ELSE IF hasBase THEN PercentBranch(pb.val, a.jitterStr, positionalJitter, arch)
            ELSE IF minSet /\ maxSet THEN [err |-> Nil, low |-> pm.val, high |-> pM.val]
            ELSE Fail(Err("missing required duration", <<>>))
    IN  IF conflict # Nil THEN Fail(conflict)
        ELSE IF tokerr # Nil THEN Fail(tokerr)
        ELSE IF unclamped.err # Nil THEN unclamped
        ELSE Clamp(unclamped, minSet, pm.val, maxSet, pM.val)

\* ------------------------------------------------------------------------
\* State
\* ------------------------------------------------------------------------

VARIABLES
    pc,       \* where the program is
    arch,     \* the build target the program runs on
    args,     \* parseArgs: the argument list, flags split off
    res,      \* parseArgs: what it returned, [err, low, high]
    low,      \* chooseSleepDuration: its parameters
    high,
    out,      \* chooseSleepDuration: what it returned, [err, val]
    n,        \* cryptoRandInt64: its parameter
    attempt,  \* cryptoRandInt64: reads of the random source made so far
    buf,      \* cryptoRandInt64: the word last read, or ReadFailed
    rnd       \* cryptoRandInt64: what it returned, [err, val]

vars == <<pc, arch, args, res, low, high, out, n, attempt, buf, rnd>>

\* ------------------------------------------------------------------------
\* The argument lists explored
\* ------------------------------------------------------------------------

RECURSIVE Itoa(_)
Itoa(k) == IF k < 10 THEN <<Digits[k + 1]>> ELSE Itoa(k \div 10) \o <<Digits[(k % 10) + 1]>>

\* The token writing v nanoseconds, and the one writing k percent.
Ns(v) == (IF v < 0 THEN <<"-">> ELSE <<>>) \o Itoa(Abs(v)) \o <<"n", "s">>

Pct(k) == Itoa(k) \o <<"%">>

BaseVals ==
    {MinInt64, MinInt64 + 1, -3, 0, 1, 2, 5, Pow2(WordBits - 2), Pow2(MantBits) + 1,
     MaxInt64 - 1, MaxInt64, MaxInt64 + 1}

BaseTokens == {Ns(v) : v \in BaseVals} \cup {<<"1">>, <<"1", "d">>, <<"x">>}

PosJitterTokens == {<<>>, Pct(0), Pct(50), <<"x">>}

PosLists ==
    {<<>>} \cup {<<b>> : b \in BaseTokens}
    \cup {<<b, j>> : b \in BaseTokens, j \in PosJitterTokens}
    \cup {<<Ns(1), Pct(50), <<"x">>>>}

JitterTokens ==
    {<<>>, Pct(0), Pct(25), Pct(100), Pct(200), <<"-", "1", "%">>, <<"x", "%">>,
     <<"2", "5">>, <<"I", "n", "f", "%">>}

RangeTokens ==
    {<<>>, <<"x">>, Ns(MinInt64), Ns(-1), Ns(1), Ns(2), Ns(Pow2(WordBits - 2)),
     Ns(MaxInt64)}

MinTokens == {<<>>, <<"x">>, Ns(-2), Ns(0), Ns(2), Ns(MaxInt64 - 1)}

MaxTokens == {<<>>, <<"x">>, Ns(-1), Ns(1), Ns(3), Ns(MaxInt64)}

ArgLists ==
    [pos : PosLists, jitterStr : JitterTokens, rangeStr : RangeTokens,
     minStr : MinTokens, maxStr : MaxTokens]

NoArgs == [pos |-> <<>>, jitterStr |-> <<>>, rangeStr |-> <<>>, minStr |-> <<>>, maxStr |-> <<>>]

NoRes == [err |-> Nil, low |-> 0, high |-> 0]

NoOut == [err |-> Nil, val |-> 0]

\* ------------------------------------------------------------------------
\* parseArgs as a step
\* ------------------------------------------------------------------------

InitArgs ==
    /\ pc = "parseArgs"
    /\ arch \in Archs
    /\ args \in ArgLists
    /\ res = NoRes
    /\ low = 0 /\ high = 0 /\ out = NoOut
    /\ n = 0 /\ attempt = 0 /\ buf = 0 /\ rnd = NoOut

\* main calls parseArgs; on an error it prints it and exits with status 1.
ParseArgs ==
    /\ pc = "parseArgs"
    /\ res' = parseArgs(args, arch)
    /\ pc' = IF res'.err # Nil THEN "exit1" ELSE "parsed"
    /\ UNCHANGED <<arch, args, low, high, out, n, attempt, buf, rnd>>

NextArgs == ParseArgs

SpecArgs == InitArgs /\ [][NextArgs]_vars

\* ------------------------------------------------------------------------
\* Properties of parseArgs
\* ------------------------------------------------------------------------

\* What the argument list supplies, and what its tokens denote.
Returned == pc \in {"parsed", "exit1"}

Succeeded == pc = "parsed"

JitterGiven == args.jitterStr # <<>>

RangeGiven == args.rangeStr # <<>>

MinGiven == args.minStr # <<>>

MaxGiven == args.maxStr # <<>>

PosJitterGiven == Len(args.pos) = 2 /\ args.pos[2] # <<>>

BaseGiven == Len(args.pos) \in {1, 2}

RangeTok == parseDuration(args.rangeStr, arch)

MinTok == parseDuration(args.minStr, arch)

MaxTok == parseDuration(args.maxStr, arch)

BaseTok == parseDuration(args.pos[1], arch)

PercentTok ==
    IF JitterGiven THEN parsePercent(args.jitterStr)
    ELSE IF PosJitterGiven THEN parsePercent(args.pos[2])
    ELSE [err |-> Nil, val |-> defaultJitterFraction]

\* C1: whenever parseArgs succeeds, the interval it returns satisfies
\* 0 <= low <= high; an argument list that would give anything else fails.
C1_ResolvedIntervalValid ==
    Succeeded => (0 <= res.low /\ res.low <= res.high)

\* C1 witness: a success whose interval was raised by the min bound and is
\* not a single point.
C1_Witness ==
    /\ Succeeded /\ MinGiven /\ BaseGiven
    /\ res.low = MinTok.val /\ MinTok.val > 0 /\ res.low < res.high

\* C3 as claimed: on success both endpoints are >= min when min is present
\* and <= max when max is present.
C3_ClampedToBounds ==
    Succeeded =>
        /\ MinGiven => (res.low >= MinTok.val /\ res.high >= MinTok.val)
        /\ MaxGiven => (res.low <= MaxTok.val /\ res.high <= MaxTok.val)

\* The number of jitter specifications supplied.
JitterSpecCount ==
    (IF JitterGiven THEN 1 ELSE 0) + (IF PosJitterGiven THEN 1 ELSE 0)
    + (IF RangeGiven THEN 1 ELSE 0)

ConflictMessages ==
    {"cannot use --jitter with --range",
     "cannot specify jitter both positionally and with --jitter",
     "cannot use positional jitter with --range"}

\* C4: with at most two positional tokens, two or more jitter specifications
\* make parseArgs fail with a conflict error; so a success used at most one.
C4_JitterSpecsExclusive ==
    /\ (Returned /\ Len(args.pos) <= 2 /\ JitterSpecCount >= 2)
          => (pc = "exit1" /\ res.err[1] \in ConflictMessages)
    /\ Succeeded => JitterSpecCount <= 1

\* C4 witness: a positional jitter token with an absolute range, rejected.
C4_Witness ==
    /\ pc = "exit1" /\ PosJitterGiven /\ RangeGiven /\ ~JitterGiven
    /\ res.err[1] = "cannot use positional jitter with --range"

\* The branch table in exact integer arithmetic.  n/d rounded to the
\* nearest integer, halves away from zero:
RoundHalfAway(num, den) ==
    LET a == Abs(num)
        q == a \div den
        m == IF 2 * (a % den) >= den THEN q + 1 ELSE q
    IN  IF num < 0 THEN -m ELSE m

\* delta = round(base * fraction), the fraction being the float parsePercent
\* returned (or the default).
ExactDelta == RoundHalfAway(BaseTok.val * PercentTok.val[2], PercentTok.val[3])

\* The unclamped interval of the table, <<low, high>>.
TableInterval ==
    IF RangeGiven THEN <<BaseTok.val - RangeTok.val, BaseTok.val + RangeTok.val>>
    ELSE IF BaseGiven THEN <<BaseTok.val - ExactDelta, BaseTok.val + ExactDelta>>
    ELSE <<MinTok.val, MaxTok.val>>

\* Clamped to min, then to max, then floored at zero.
ClampExact(x) ==
    LET a == IF MinGiven THEN Max2(x, MinTok.val) ELSE x
        b == IF MaxGiven THEN Min2(a, MaxTok.val) ELSE a
    IN  Max2(b, 0)

\* No conflict, every token supplied parses, and the bounds are in order.
WellFormedArgs ==
    /\ ConflictError(args.pos, args.jitterStr, args.rangeStr) = Nil
    /\ RangeGiven => RangeTok.err = Nil
    /\ MinGiven => MinTok.err = Nil
    /\ MaxGiven => MaxTok.err = Nil
    /\ (MinGiven /\ MaxGiven) => MaxTok.val >= MinTok.val
    /\ BaseGiven => BaseTok.err = Nil
    /\ PercentTok.err = Nil /\ IsFin(PercentTok.val)

\* C5 as claimed: on well-formed arguments the result is the branch table's
\* interval (base -+ range, base -+ round(base * fraction), or (min, max)),
\* clamped to min, then max, then floored at zero; a range without a base
\* fails with RangeRequiresBase and no base, no range and not both bounds
\* fails with MissingDuration.
C5_BranchTable ==
    (Returned /\ WellFormedArgs) =>
        /\ (RangeGiven /\ ~BaseGiven)
              => res.err[1] = "--range requires a base duration"
        /\ (~RangeGiven /\ ~BaseGiven /\ ~(MinGiven /\ MaxGiven))
              => res.err[1] = "missing required duration"
        /\ Succeeded
              => /\ res.low = ClampExact(TableInterval[1])
                 /\ res.high = ClampExact(TableInterval[2])

\* C6 as claimed: parseArgs never succeeds when base - range, base + range,
\* base - delta or base + delta lies outside the signed word.
C6_NoWrappedEndpoint ==
    (Succeeded /\ BaseGiven) =>
        (TableInterval[1] \in Int64 /\ TableInterval[2] \in Int64)

\* The errors of the resolution order, first match wins.
FirstError ==
    LET unclamped ==
            IF RangeGiven THEN RangeBranch(BaseTok.val, RangeTok.val)
            ELSE IF BaseGiven
                 THEN PercentBranch(BaseTok.val, args.jitterStr,
                                    IF Len(args.pos) = 2 THEN args.pos[2] ELSE <<>>, arch)
            ELSE [err |-> Nil, low |-> MinTok.val, high |-> MaxTok.val]
    IN  IF Len(args.pos) > 2 THEN Err("too many positional arguments", <<>>)
        ELSE IF JitterGiven /\ RangeGiven THEN Err("cannot use --jitter with --range", <<>>)
        ELSE IF PosJitterGiven /\ JitterGiven
             THEN Err("cannot specify jitter both positionally and with --jitter", <<>>)
        ELSE IF PosJitterGiven /\ RangeGiven
             THEN Err("cannot use positional jitter with --range", <<>>)
        ELSE IF RangeGiven /\ RangeTok.err # Nil THEN RangeTok.err
        ELSE IF MinGiven /\ MinTok.err # Nil THEN MinTok.err
        ELSE IF MaxGiven /\ MaxTok.err # Nil THEN MaxTok.err
        ELSE IF MinGiven /\ MaxGiven /\ MaxTok.val < MinTok.val
             THEN Err("max must be greater than or equal to min", <<>>)
        ELSE IF BaseGiven /\ BaseTok.err # Nil THEN BaseTok.err
        ELSE IF RangeGiven /\ ~BaseGiven THEN Err("--range requires a base duration", <<>>)
        ELSE IF ~RangeGiven /\ BaseGiven /\ PercentTok.err # Nil THEN PercentTok.err
        ELSE IF ~RangeGiven /\ BaseGiven /\ unclamped.err # Nil
             THEN Err("jitter results overflow time.Duration", <<>>)
        ELSE IF ~RangeGiven /\ ~BaseGiven /\ ~(MinGiven /\ MaxGiven)
             THEN Err("missing required duration", <<>>)
        ELSE Clamp(unclamped, MinGiven, MinTok.val, MaxGiven, MaxTok.val).err

\* How many of the error conditions of the order hold of the tokens alone.
ErrorConditionCount ==
    (IF Len(args.pos) > 2 THEN 1 ELSE 0)
    + (IF JitterSpecCount >= 2 THEN 1 ELSE 0)
    + (IF RangeGiven /\ RangeTok.err # Nil THEN 1 ELSE 0)
    + (IF MinGiven /\ MinTok.err # Nil THEN 1 ELSE 0)
    + (IF MaxGiven /\ MaxTok.err # Nil THEN 1 ELSE 0)
    + (IF MinGiven /\ MaxGiven /\ MinTok.err = Nil /\ MaxTok.err = Nil
          /\ MaxTok.val < MinTok.val THEN 1 ELSE 0)
    + (IF BaseGiven /\ BaseTok.err # Nil THEN 1 ELSE 0)
    + (IF RangeGiven /\ ~BaseGiven THEN 1 ELSE 0)

\* C8: parseArgs reports the first error of the order: too many positional
\* tokens; the three jitter conflicts; the parse errors of range, min, max;
\* max < min; the parse error of the base; the branch errors; the empty
\* interval.  So a conflict wins over any malformed token, and max < min
\* wins over a missing or malformed base.
C8_ErrorPrecedence ==
    Returned =>
        /\ res.err = FirstError
        /\ (Len(args.pos) <= 2 /\ JitterSpecCount >= 2) => res.err[1] \in ConflictMessages
        /\ (/\ Len(args.pos) <= 2 /\ JitterSpecCount <= 1
            /\ ~(RangeGiven /\ RangeTok.err # Nil)
            /\ MinGiven /\ MaxGiven /\ MinTok.err = Nil /\ MaxTok.err = Nil
            /\ MaxTok.val < MinTok.val)
              => res.err[1] = "max must be greater than or equal to min"

\* C8 witness: max < min together with a malformed base, reported as max < min.
C8_Witness ==
    /\ pc = "exit1" /\ ErrorConditionCount >= 2
    /\ BaseGiven /\ BaseTok.err # Nil
    /\ res.err[1] = "max must be greater than or equal to min"

\* ------------------------------------------------------------------------
\* cryptoRandInt64
\* ------------------------------------------------------------------------

\* for range 1000
MaxAttempts == 1000

\* limit := maxUint - (maxUint % uint64(n)), without the rejection.
RandLimitNoReject(k) == MaxUint64

\* limit := maxUint - (maxUint % uint64(n))
RandLimit(k) == MaxUint64 - (MaxUint64 % k)

\* The draw returned as it is, not reduced.
RandResultNoMod(v, k) == v

\* int64(v % uint64(n))
RandResult(v, k) == v % k

\* What rand.Read leaves in buf: any word, or the read fails.
ReadFailed == -1

ReadResults == (0..MaxUint64) \cup {ReadFailed}

RandErr(msg) == [err |-> Err(msg, <<>>), val |-> 0]

\* Everything a call cryptoRandInt64(k) can return.
CryptoRandOutcomes(k) ==
    IF k <= 0 THEN {RandErr("n must be positive")}
    ELSE {[err |-> Nil, val |-> RandResult(v, k)] : v \in 0..(RandLimit(k) - 1)}
         \cup {RandErr("rand.Read failed"),
               RandErr("random number generation failed after too many attempts")}

InitRand ==
    /\ pc = "randEntry"
    /\ n \in Int64
    /\ attempt = 0
    /\ buf = 0
    /\ rnd = NoOut
    /\ arch = "amd64" /\ args = NoArgs /\ res = NoRes
    /\ low = 0 /\ high = 0 /\ out = NoOut

\* if n <= 0 { return 0, errors.New("n must be positive") }
RandEnter ==
    /\ pc = "randEntry"
    /\ pc' = IF n <= 0 THEN "randDone" ELSE "randLoop"
    /\ rnd' = IF n <= 0 THEN RandErr("n must be positive") ELSE rnd
    /\ UNCHANGED <<arch, args, res, low, high, out, n, attempt, buf>>

\* One iteration of the loop: read 8 bytes; a failed read returns its error,
\* a value below the limit returns it modulo n, any other value is dropped.
RandRead ==
    /\ pc = "randLoop"
    /\ attempt < MaxAttempts
    /\ \E r \in ReadResults :
          /\ buf' = r
          /\ attempt' = attempt + 1
          /\ pc' = IF r = ReadFailed \/ r < RandLimit(n) THEN "randDone" ELSE "randLoop"
          /\ rnd' = IF r = ReadFailed THEN RandErr("rand.Read failed")
                    ELSE IF r < RandLimit(n) THEN [err |-> Nil, val |-> RandResult(r, n)]
                    ELSE rnd
    /\ UNCHANGED <<arch, args, res, low, high, out, n>>

\* The loop ran out: the error after 1000 rejected draws.
RandExhausted ==
    /\ pc = "randLoop"
    /\ attempt >= MaxAttempts
    /\ pc' = "randDone"
    /\ rnd' = RandErr("random number generation failed after too many attempts")
    /\ UNCHANGED <<arch, args, res, low, high, out, n, attempt, buf>>

NextRand == RandEnter \/ RandRead \/ RandExhausted

SpecRand == InitRand /\ [][NextRand]_vars

\* The sizes the termination of the loop is checked for: the words that are
\* rejected at entry, the smallest sizes, and the largest ones.
RandSizes == {MinInt64, -1, 0, 1, 2, 3, (MaxInt64 \div 2) + 1, MaxInt64 - 1, MaxInt64}

InitRandSizes == InitRand /\ n \in RandSizes

\* The loop is sequential code: it runs on until it returns.
FairSpecRand == InitRandSizes /\ [][NextRand]_vars /\ WF_vars(NextRand)

\* ------------------------------------------------------------------------
\* Properties of cryptoRandInt64
\* ------------------------------------------------------------------------

RandReturned == pc = "randDone"

\* What the call returned agrees with the last read and the number of reads.
RandReturnJustified ==
    /\ rnd \in CryptoRandOutcomes(n)
    /\ n <= 0 => (attempt = 0 /\ rnd = RandErr("n must be positive"))
    /\ (n > 0 /\ buf = ReadFailed) => (attempt >= 1 /\ rnd = RandErr("rand.Read failed"))
    /\ (n > 0 /\ buf # ReadFailed /\ buf < MaxUint64 - (MaxUint64 % n))
          => (attempt >= 1 /\ rnd = [err |-> Nil, val |-> buf % n])
    /\ (n > 0 /\ buf # ReadFailed /\ buf >= MaxUint64 - (MaxUint64 % n))
          => (attempt = MaxAttempts
              /\ rnd = RandErr("random number generation failed after too many attempts"))

\* C7: cryptoRandInt64 terminates whatever the random source does: it makes
\* at most 1000 reads, goes on to another read only after a rejected draw
\* (so it returns the first accepted draw, modulo n, and a failed read at
\* once), returns the exhaustion error after 1000 rejected draws, and does
\* return in the end.
C7_RandTerminates ==
    /\ [](attempt <= MaxAttempts)
    /\ [](RandReturned => RandReturnJustified)
    /\ [][(pc = "randLoop" /\ pc' = "randLoop")
             => (attempt' = attempt + 1 /\ buf' # ReadFailed
                 /\ buf' >= MaxUint64 - (MaxUint64 % n))]_vars
    /\ [][~RandReturned]_vars
    /\ <>RandReturned

\* C7 witness: a call that returned the exhaustion error after 1000 reads.
C7_Witness ==
    /\ RandReturned /\ attempt = MaxAttempts /\ n > 1
    /\ rnd = RandErr("random number generation failed after too many attempts")

\* C9: for every n from 1 to the largest signed word the limit is a positive
\* multiple of n within the source's range, every accepted draw is reduced
\* into 0..n-1, and each result in 0..n-1 has exactly limit / n accepted draws.
C9_NoModuloBias ==
    (pc = "randLoop" /\ attempt <= 1) =>
        LET limit == RandLimit(n)
        IN  /\ limit > 0 /\ limit <= MaxUint64 /\ limit % n = 0
            /\ \A v \in 0..(limit - 1) : RandResult(v, n) \in 0..(n - 1)
            /\ \A r \in 0..(n - 1) :
                  Cardinality({v \in 0..(limit - 1) : RandResult(v, n) = r}) = limit \div n

\* C9 witness: a draw was rejected, for an n the source's range is no
\* multiple of.
C9_Witness ==
    /\ pc = "randLoop" /\ attempt = 1 /\ n > 2
    /\ buf >= RandLimit(n) /\ RandLimit(n) < MaxUint64

\* ------------------------------------------------------------------------
\* chooseSleepDuration
\* ------------------------------------------------------------------------

\* The argument of the call cryptoRandInt64(int64(width) + 1), off by one.
SampleSizeOffByOne(width) == Wrap(width + 2)

\* The argument of the call cryptoRandInt64(int64(width) + 1).
SampleSize(width) == Wrap(width + 1)

\* Whether chooseSleepDuration(lo, hi) gets as far as the random source.
CallsRand(lo, hi) ==
    /\ hi # lo
    /\ lo <= hi
    /\ Wrap(lo + Wrap(hi - lo)) # MaxInt64

\* What the call to cryptoRandInt64 can return to chooseSleepDuration(lo, hi).
RandCallOutcomes(lo, hi) ==
    IF CallsRand(lo, hi) THEN CryptoRandOutcomes(SampleSize(Wrap(hi - lo))) ELSE {NoOut}

\* chooseSleepDuration(lo, hi), r being what cryptoRandInt64 returned to it.
chooseSleepDuration(lo, hi, r) ==
    IF hi = lo THEN [err |-> Nil, val |-> Max2(lo, 0)]
    ELSE IF lo > hi
         THEN [err |-> Err("low must be less than or equal to high", <<>>), val |-> 0]
    ELSE LET width == Wrap(hi - lo)
         IN  IF Wrap(lo + width) = MaxInt64 THEN [err |-> Nil, val |-> hi]
             ELSE IF r.err # Nil THEN [err |-> r.err, val |-> 0]
             ELSE [err |-> Nil, val |-> Max2(Wrap(lo + r.val), 0)]

InitSample ==
    /\ pc = "choose"
    /\ low \in Int64
    /\ high \in Int64
    /\ out = NoOut
    /\ arch = "amd64" /\ args = NoArgs /\ res = NoRes
    /\ n = 0 /\ attempt = 0 /\ buf = 0 /\ rnd = NoOut

\* One call of chooseSleepDuration, the call to cryptoRandInt64 included.
ChooseSleepDuration ==
    /\ pc = "choose"
    /\ \E r \in RandCallOutcomes(low, high) :
          /\ rnd' = r
          /\ out' = chooseSleepDuration(low, high, r)
    /\ n' = IF CallsRand(low, high) THEN SampleSize(Wrap(high - low)) ELSE n
    /\ pc' = "chosen"
    /\ UNCHANGED <<arch, args, res, low, high, attempt, buf>>

NextSample == ChooseSleepDuration

SpecSample == InitSample /\ [][NextSample]_vars

\* ------------------------------------------------------------------------
\* Properties of chooseSleepDuration
\* ------------------------------------------------------------------------

Chosen == pc = "chosen" /\ out.err = Nil

\* C2 as claimed: for all low <= high in the signed word, a result returned
\* without error lies in [low, high], and is low when low = high.
C2_ResultInInterval ==
    (Chosen /\ low <= high) =>
        /\ low <= out.val /\ out.val <= high
        /\ low = high => out.val = low

\* C2 as amended: the result lies between the endpoints floored at zero, and
\* is the floored value when low = high; so for 0 <= low <= high it lies in
\* [low, high] and is low when low = high.
C2_ResultInFlooredInterval ==
    (Chosen /\ low <= high) =>
        /\ Max2(low, 0) <= out.val /\ out.val <= Max2(high, 0)
        /\ low = high => out.val = Max2(low, 0)
        /\ 0 <= low => (low <= out.val /\ out.val <= high)
        /\ (0 <= low /\ low = high) => out.val = low

\* C2 witness: a draw strictly inside an interval of positive endpoints.
C2_Witness ==
    /\ Chosen /\ 0 < low /\ low < out.val /\ out.val < high
    /\ rnd.err = Nil /\ out.val = low + rnd.val

\* The results chooseSleepDuration(lo, hi) can return without error.
Drawable(lo, hi) ==
    {chooseSleepDuration(lo, hi, r).val :
        r \in {x \in RandCallOutcomes(lo, hi) : chooseSleepDuration(lo, hi, x).err = Nil}}

\* C10 as claimed: for 0 <= low < high, high up to the largest Duration,
\* every value of [low, high] is a possible result of chooseSleepDuration.
C10_EveryOffsetDrawable ==
    (pc = "chosen" /\ 0 <= low /\ low < high) =>
        \A v \in low..high : v \in Drawable(low, high)

====
